---- MODULE Spec2Model ----
(***************************************************************************)
(* csvtojson: a CSV file is parsed by one goroutine (processCsvFile) and   *)
(* written as a JSON array by another (writeJSONFile).  The two are joined *)
(* by the unbuffered channel writerChannel; main waits on the unbuffered   *)
(* channel done.  A fatal error in either goroutine ends the process       *)
(* through exitGracefully (Fprintf to stderr, then os.Exit(1)).            *)
(***************************************************************************)
EXTENDS Integers, Sequences, FiniteSets, TLC

(* ------------------------------ bounds --------------------------------- *)
\* most columns a header line of the modelled inputs has
MaxCols == 2
\* most data lines the modelled input files hold
MaxRows == 2

(* --------------------------- input universe ---------------------------- *)
\* column names, listed in the byte order sort.Strings gives them
SortedNames == <<"a", "b">>
Names == {SortedNames[i] : i \in 1..Len(SortedNames)}
\* a data line's cells are told apart by the line's tag and the cell's position
Tags == {"x", "y"}
Cell(tag, i) == tag \o ToString(i)

Range(s) == {s[i] : i \in 1..Len(s)}
Last(s) == s[Len(s)]
IsPrefix(s, t) == Len(s) <= Len(t) /\ \A i \in 1..Len(s) : s[i] = t[i]
SeqsUpTo(S, n) == UNION {[1..k -> S] : k \in 1..n}

\* what the input file can hold at the reader's position: end of file, a line
\* the tokenizer rejects (a bare or unterminated quote), or a line of fields
EOFItem == [eof |-> TRUE, bad |-> FALSE, fields |-> <<>>]
BadItem == [eof |-> FALSE, bad |-> TRUE, fields |-> <<>>]
FieldsItem(fs) == [eof |-> FALSE, bad |-> FALSE, fields |-> fs]
HeaderItems == {EOFItem, BadItem} \cup {FieldsItem(h) : h \in SeqsUpTo(Names, MaxCols)}
DataItems ==
    {EOFItem, BadItem} \cup
    {FieldsItem([i \in 1..n |-> Cell(t, i)]) : t \in Tags, n \in 1..(MaxCols + 1)}

EmptyMap == [n \in {} |-> ""]

\* the command lines: the positional file argument ("" when none is given),
\* the value of --separator and of --outputPath ("" when not given)
Files == {"", "test.csv", "test.txt"}
Separators == {"comma", "semicolon", "pipe"}
OutputPaths == {"", "outdir", "missing", "notadir"}
ArgLines == [file : Files, separator : Separators, outputPath : OutputPaths]

VARIABLES
    osArgs,          \* os.Args: the file argument and the flags given
    fileStat,        \* what os.Stat found for the input file in checkIfValidFile
    opts,            \* main's opts
    optsErr,         \* the error getOpts returned ("nil" for none)
    valid,           \* what checkIfValidFile returned: [ok, err]
    chanMade,        \* writerChannel and done have been made
    pretty,          \* the --pretty flag, opts.pretty
    inputState,      \* the input file: "none", "open", "closed"
    fieldsPerRecord, \* reader.FieldsPerRecord
    atEOF,           \* the reader has reached the end of the file
    rowsRead,        \* the data lines the reader has been given so far
    headers,         \* processCsvFile's headers
    line,            \* processCsvFile's line
    readErr,         \* processCsvFile's err after a Read
    record,          \* processCsvFile's record
    ppc,             \* where processCsvFile is
    chanClosed,      \* writerChannel has been closed
    closeCount,      \* how many times close(writerChannel) ran
    wpc,             \* where writeJSONFile is
    first,           \* writeJSONFile's first
    recvRecord,      \* writeJSONFile's record
    sink,            \* the fragments written to the output file, in order
    sinkState,       \* the output file: "none", "open", "closed"
    mpc,             \* where main is
    exitStatus,      \* "running", "ok" (main returned), "failed" (os.Exit(1))
    stderr,          \* the stages whose error exitGracefully has printed
    skipped,         \* how many "Line : ..." diagnostics were printed
    doneCount,       \* how many times "Done!" was printed
    exitCalls,       \* how many times exitGracefully was entered
    built,           \* how many records processLine has returned
    received,        \* how many records writeJSONFile has received
    sent,            \* the records handed over on writerChannel, in order
    ioFault          \* an operating-system call on a file has failed

parserVars == <<inputState, fieldsPerRecord, atEOF, rowsRead, headers, line, readErr,
                record, ppc, skipped, built>>
chanVars == <<chanClosed, closeCount, sent, received>>
writerVars == <<wpc, first, recvRecord, sink, sinkState, doneCount>>
procVars == <<mpc, exitStatus, stderr, exitCalls, ioFault>>
mainVars == <<osArgs, fileStat, opts, optsErr, valid, chanMade>>
vars == <<pretty, mainVars, parserVars, chanVars, writerVars, procVars>>

Running == exitStatus = "running"

(* ----------------------------- csv.Reader ------------------------------ *)
\* reader.Read() with the reader's FieldsPerRecord left at its zero value: the
\* first record sets it, and a later record of another length is returned
\* together with ErrFieldCount
csvRead(item, fpr) ==
    IF item.eof THEN [record |-> <<>>, err |-> "EOF", fieldsPerRecord |-> fpr]
    ELSE IF item.bad THEN [record |-> <<>>, err |-> "ErrQuote", fieldsPerRecord |-> fpr]
    ELSE IF fpr = 0
         THEN [record |-> item.fields, err |-> "nil", fieldsPerRecord |-> Len(item.fields)]
    ELSE IF Len(item.fields) # fpr
         THEN [record |-> item.fields, err |-> "ErrFieldCount", fieldsPerRecord |-> fpr]
    ELSE [record |-> item.fields, err |-> "nil", fieldsPerRecord |-> fpr]

(* ----------------------------- processLine ----------------------------- *)
\* faulty variant: the loop over the headers stops one column short
RECURSIVE processLineLoop_OffByOne(_, _, _, _)
processLineLoop_OffByOne(hs, dataList, i, recordMap) ==
    IF i >= Len(hs) THEN recordMap
    ELSE processLineLoop_OffByOne(hs, dataList, i + 1, (hs[i] :> dataList[i]) @@ recordMap)

\* faulty variant: a name already in the map keeps its first value
RECURSIVE processLineLoop_FirstWins(_, _, _, _)
processLineLoop_FirstWins(hs, dataList, i, recordMap) ==
    IF i > Len(hs) THEN recordMap
    ELSE processLineLoop_FirstWins(hs, dataList, i + 1, recordMap @@ (hs[i] :> dataList[i]))

RECURSIVE processLineLoop(_, _, _, _)
processLineLoop(hs, dataList, i, recordMap) ==
    IF i > Len(hs) THEN recordMap
    ELSE processLineLoop(hs, dataList, i + 1, (hs[i] :> dataList[i]) @@ recordMap)

processLine(hs, dataList) ==
    IF Len(dataList) # Len(hs)
    THEN [err |-> TRUE, record |-> EmptyMap]
    ELSE [err |-> FALSE, record |-> processLineLoop(hs, dataList, 1, EmptyMap)]

(* ----------------------------- getJSONFunc ----------------------------- *)
Rank(name) == CHOOSE i \in 1..Len(SortedNames) : SortedNames[i] = name

\* faulty variant: the keys come out in descending order
RECURSIVE sortedKeys_Descending(_)
sortedKeys_Descending(S) ==
    IF S = {} THEN <<>>
    ELSE LET m == CHOOSE k \in S : \A o \in S : Rank(k) >= Rank(o)
         IN <<m>> \o sortedKeys_Descending(S \ {m})

\* encoding/json writes a map's keys in sorted order
RECURSIVE sortedKeys(_)
sortedKeys(S) ==
    IF S = {} THEN <<>>
    ELSE LET m == CHOOSE k \in S : \A o \in S : Rank(k) <= Rank(o)
         IN <<m>> \o sortedKeys(S \ {m})

\* faulty variant: the line break is used in compact mode too
breakLine_Always(p) == "\n"

breakLine(p) == IF p THEN "\n" ELSE ""

TextFragment(t) == [kind |-> "text", text |-> t, pairs |-> <<>>]

\* faulty variant: the indented rendering loses the record's last member
jsonFunc_PrettyDropsKey(p, rec) ==
    LET ks == sortedKeys(DOMAIN rec)
        n == IF p THEN Len(ks) - 1 ELSE Len(ks)
    IN [kind |-> "object",
        text |-> IF p THEN "   " ELSE "",
        pairs |-> [i \in 1..n |-> [key |-> ks[i], value |-> rec[ks[i]]]]]

\* the text of one record: its indentation unit and its "key": "value" members
jsonFunc(p, rec) ==
    LET ks == sortedKeys(DOMAIN rec)
    IN [kind |-> "object",
        text |-> IF p THEN "   " ELSE "",
        pairs |-> [i \in 1..Len(ks) |-> [key |-> ks[i], value |-> rec[ks[i]]]]]

(* ------------------------------- getOpts ------------------------------- *)
NoOpts == [filePath |-> "", separator |-> "", pretty |-> FALSE, outputPath |-> ""]

\* len(os.Args): the command, the flags given (a flag left at its default is
\* not on the command line) and the file argument
ArgCount(a, p) ==
    1 + (IF p THEN 1 ELSE 0) + (IF a.separator # "comma" THEN 1 ELSE 0)
      + (IF a.outputPath # "" THEN 1 ELSE 0) + (IF a.file # "" THEN 1 ELSE 0)

\* os.Stat(*outputPath) for the modelled paths
OutputPathStat(path) ==
    IF path = "missing" THEN "notExist" ELSE IF path = "notadir" THEN "file" ELSE "dir"

\* filepath.Join(*outputPath, base + ".json"), the directory defaulting to the
\* input file's
ResolvedOutputPath(a) ==
    (IF a.outputPath = "" THEN "Dir(" \o a.file \o ")" ELSE a.outputPath)
        \o "/TrimSuffix(" \o a.file \o ").json"

getOpts(a, p) ==
    IF ArgCount(a, p) < 2
    THEN [opts |-> NoOpts, err |-> "A filepath argument must be given!"]
    ELSE IF ~(a.separator = "comma" \/ a.separator = "semicolon")
    THEN [opts |-> NoOpts, err |-> "Only comma or semicolon separators allowed"]
    ELSE IF a.outputPath # "" /\ OutputPathStat(a.outputPath) = "notExist"
    THEN [opts |-> NoOpts, err |-> "Path provided to save output JSON does not exist"]
    ELSE IF a.outputPath # "" /\ OutputPathStat(a.outputPath) # "dir"
    THEN [opts |-> NoOpts, err |-> "Path provided to save output JSON is not a directory"]
    ELSE [opts |-> [filePath |-> a.file, separator |-> a.separator, pretty |-> p,
                    outputPath |-> ResolvedOutputPath(a)],
          err |-> "nil"]

(* -------------------------- checkIfValidFile --------------------------- *)
\* filepath.Ext of the modelled file names
Ext(filename) ==
    IF filename = "test.csv" THEN ".csv" ELSE IF filename = "test.txt" THEN ".txt" ELSE ""

\* faulty variant: the existence of the file is not looked at
checkIfValidFile_NoStat(filename, st) ==
    IF Ext(filename) # ".csv" THEN [ok |-> FALSE, err |-> TRUE]
    ELSE [ok |-> TRUE, err |-> FALSE]

\* st is what os.Stat(filename) finds: "exists" or "notExist"; any other
\* outcome of os.Stat is let through like "exists"
checkIfValidFile(filename, st) ==
    IF Ext(filename) # ".csv" THEN [ok |-> FALSE, err |-> TRUE]
    ELSE IF st = "notExist" THEN [ok |-> FALSE, err |-> TRUE]
    ELSE [ok |-> TRUE, err |-> FALSE]

(* -------------------------------- Init --------------------------------- *)
Init ==
    /\ pretty \in BOOLEAN
    /\ osArgs \in ArgLines
    /\ fileStat = "unknown"
    /\ opts = NoOpts
    /\ optsErr = "nil"
    /\ valid = [ok |-> FALSE, err |-> FALSE]
    /\ chanMade = FALSE
    /\ inputState = "none"
    /\ fieldsPerRecord = 0
    /\ atEOF = FALSE
    /\ rowsRead = <<>>
    /\ headers = <<>>
    /\ line = <<>>
    /\ readErr = "nil"
    /\ record = EmptyMap
    /\ ppc = "notStarted"
    /\ chanClosed = FALSE
    /\ closeCount = 0
    /\ wpc = "notStarted"
    /\ first = TRUE
    /\ recvRecord = EmptyMap
    /\ sink = <<>>
    /\ sinkState = "none"
    /\ mpc = "getOpts"
    /\ exitStatus = "running"
    /\ stderr = <<>>
    /\ skipped = 0
    /\ doneCount = 0
    /\ exitCalls = 0
    /\ built = 0
    /\ received = 0
    /\ sent = <<>>
    /\ ioFault = FALSE

(* --------------------------- processCsvFile ---------------------------- *)
\* os.Open succeeds
ParserOpen ==
    /\ Running /\ ppc = "open"
    /\ inputState' = "open"
    /\ ppc' = "readHeader"
    /\ UNCHANGED <<pretty, mainVars, fieldsPerRecord, atEOF, rowsRead, headers, line, readErr, record,
                   skipped, built, chanVars, writerVars, procVars>>

\* os.Open fails: check(err)
ParserOpenFails ==
    /\ Running /\ ppc = "open"
    /\ ioFault' = TRUE
    /\ exitCalls' = exitCalls + 1
    /\ ppc' = "exitGracefully"
    /\ UNCHANGED <<pretty, mainVars, inputState, fieldsPerRecord, atEOF, rowsRead, headers, line,
                   readErr, record, skipped, built, chanVars, writerVars, mpc, exitStatus,
                   stderr>>

\* headers, err = reader.Read(); check(err)
ParserReadHeader ==
    /\ Running /\ ppc = "readHeader"
    /\ \E item \in HeaderItems :
         LET r == csvRead(item, fieldsPerRecord)
         IN /\ headers' = r.record
            /\ readErr' = r.err
            /\ fieldsPerRecord' = r.fieldsPerRecord
            /\ atEOF' = item.eof
            /\ ppc' = IF r.err = "nil" THEN "readLine" ELSE "exitGracefully"
            /\ exitCalls' = IF r.err = "nil" THEN exitCalls ELSE exitCalls + 1
    /\ UNCHANGED <<pretty, mainVars, inputState, rowsRead, line, record, skipped, built, chanVars,
                   writerVars, mpc, exitStatus, stderr, ioFault>>

\* line, err = reader.Read()
ParserRead ==
    /\ Running /\ ppc = "readLine"
    /\ \E item \in (IF atEOF \/ Len(rowsRead) >= MaxRows THEN {EOFItem} ELSE DataItems) :
         LET r == csvRead(item, fieldsPerRecord)
         IN /\ line' = r.record
            /\ readErr' = r.err
            /\ fieldsPerRecord' = r.fieldsPerRecord
            /\ atEOF' = item.eof
            /\ rowsRead' = IF item.eof THEN rowsRead ELSE Append(rowsRead, item)
    /\ ppc' = "checkErr"
    /\ UNCHANGED <<pretty, mainVars, inputState, headers, record, skipped, built, chanVars,
                   writerVars, procVars>>

\* faulty variant: the channel is closed at end of file but the loop is not left
ParserEOF_NoBreak ==
    /\ Running /\ ppc = "checkErr" /\ readErr = "EOF"
    /\ chanClosed' = TRUE
    /\ closeCount' = closeCount + 1
    /\ ppc' = "readLine"
    /\ UNCHANGED <<pretty, mainVars, inputState, fieldsPerRecord, atEOF, rowsRead, headers, line,
                   readErr, record, skipped, built, sent, received, writerVars, procVars>>

\* err == io.EOF: close(writerChannel); break
ParserEOF ==
    /\ Running /\ ppc = "checkErr" /\ readErr = "EOF"
    /\ chanClosed' = TRUE
    /\ closeCount' = closeCount + 1
    /\ ppc' = "deferClose"
    /\ UNCHANGED <<pretty, mainVars, inputState, fieldsPerRecord, atEOF, rowsRead, headers, line,
                   readErr, record, skipped, built, sent, received, writerVars, procVars>>

\* err != nil: exitGracefully(err)
ParserReadFatal ==
    /\ Running /\ ppc = "checkErr" /\ readErr \notin {"nil", "EOF"}
    /\ exitCalls' = exitCalls + 1
    /\ ppc' = "exitGracefully"
    /\ UNCHANGED <<pretty, mainVars, inputState, fieldsPerRecord, atEOF, rowsRead, headers, line,
                   readErr, record, skipped, built, chanVars, writerVars, mpc, exitStatus,
                   stderr, ioFault>>

\* record, err := processLine(headers, line); on an error print the line and
\* continue, otherwise go on to the send
ParserProcessLine ==
    /\ Running /\ ppc = "checkErr" /\ readErr = "nil"
    /\ LET r == processLine(headers, line)
       IN IF r.err
          THEN /\ skipped' = skipped + 1
               /\ ppc' = "readLine"
               /\ UNCHANGED <<record, built>>
          ELSE /\ record' = r.record
               /\ built' = built + 1
               /\ ppc' = "send"
               /\ UNCHANGED skipped
    /\ UNCHANGED <<pretty, mainVars, inputState, fieldsPerRecord, atEOF, rowsRead, headers, line,
                   readErr, chanVars, writerVars, procVars>>

\* the function returns after the break: the deferred file.Close() runs
ParserReturn ==
    /\ Running /\ ppc = "deferClose"
    /\ inputState' = "closed"
    /\ ppc' = "returned"
    /\ UNCHANGED <<pretty, mainVars, fieldsPerRecord, atEOF, rowsRead, headers, line, readErr, record,
                   skipped, built, chanVars, writerVars, procVars>>

\* exitGracefully: fmt.Fprintf(os.Stderr, ...)
ParserReportError ==
    /\ Running /\ ppc = "exitGracefully"
    /\ stderr' = Append(stderr, "parser")
    /\ ppc' = "osExit"
    /\ UNCHANGED <<pretty, mainVars, inputState, fieldsPerRecord, atEOF, rowsRead, headers, line,
                   readErr, record, skipped, built, chanVars, writerVars, mpc, exitStatus,
                   exitCalls, ioFault>>

\* faulty variant: the failing goroutine returns and leaves the process running
ParserOsExit_ReturnOnly ==
    /\ Running /\ ppc = "osExit"
    /\ ppc' = "returned"
    /\ UNCHANGED <<pretty, mainVars, inputState, fieldsPerRecord, atEOF, rowsRead, headers, line,
                   readErr, record, skipped, built, chanVars, writerVars, procVars>>

\* exitGracefully: os.Exit(1) ends the process, every goroutine with it
ParserOsExit ==
    /\ Running /\ ppc = "osExit"
    /\ exitStatus' = "failed"
    /\ UNCHANGED <<pretty, mainVars, parserVars, chanVars, writerVars, mpc, stderr, exitCalls, ioFault>>

(* ---------------------------- writerChannel ---------------------------- *)
\* faulty variant: the send does not wait for the receive (the record is left behind)
Handoff_NonBlocking ==
    /\ Running /\ ppc = "send" /\ ~chanClosed
    /\ ppc' = "readLine"
    /\ UNCHANGED <<pretty, mainVars, inputState, fieldsPerRecord, atEOF, rowsRead, headers, line,
                   readErr, record, skipped, built, chanVars, writerVars, procVars>>

\* faulty variant: a separator is written before every record, the first too
Handoff_AlwaysSep ==
    /\ Running /\ ppc = "send" /\ wpc = "recv" /\ ~chanClosed
    /\ recvRecord' = record
    /\ sent' = Append(sent, record)
    /\ received' = received + 1
    /\ ppc' = "readLine"
    /\ wpc' = "writeSep"
    /\ first' = FALSE
    /\ UNCHANGED <<pretty, mainVars, inputState, fieldsPerRecord, atEOF, rowsRead, headers,
                   line, readErr, record, skipped, built, chanClosed, closeCount, sink,
                   sinkState, doneCount, procVars>>

\* faulty variant: the first record is received but never written
Handoff_DropFirst ==
    /\ Running /\ ppc = "send" /\ wpc = "recv" /\ ~chanClosed
    /\ recvRecord' = record
    /\ sent' = Append(sent, record)
    /\ received' = received + 1
    /\ ppc' = "readLine"
    /\ wpc' = IF first THEN "recv" ELSE "writeSep"
    /\ first' = FALSE
    /\ UNCHANGED <<pretty, mainVars, inputState, fieldsPerRecord, atEOF, rowsRead, headers, line,
                   readErr, record, skipped, built, chanClosed, closeCount, sink, sinkState,
                   doneCount, procVars>>

\* writerChannel <- record meets record, more := <-writeChannel: the channel
\* has no buffer, so the send ends when the receive takes the record; more is
\* true, and the writer goes on by its first flag
Handoff ==
    /\ Running /\ ppc = "send" /\ wpc = "recv" /\ ~chanClosed
    /\ recvRecord' = record
    /\ sent' = Append(sent, record)
    /\ received' = received + 1
    /\ ppc' = "readLine"
    /\ wpc' = IF first THEN "writeRec" ELSE "writeSep"
    /\ first' = FALSE
    /\ UNCHANGED <<pretty, mainVars, inputState, fieldsPerRecord, atEOF, rowsRead, headers, line,
                   readErr, record, skipped, built, chanClosed, closeCount, sink, sinkState,
                   doneCount, procVars>>

(* ---------------------------- writeJSONFile ---------------------------- *)
\* createStringWriter: os.Create succeeds
WriterCreate ==
    /\ Running /\ wpc = "create"
    /\ sinkState' = "open"
    /\ sink' = <<>>
    /\ wpc' = "writeOpen"
    /\ UNCHANGED <<pretty, mainVars, parserVars, chanVars, first, recvRecord, doneCount, procVars>>

\* createStringWriter: os.Create fails: check(err)
WriterCreateFails ==
    /\ Running /\ wpc = "create"
    /\ ioFault' = TRUE
    /\ exitCalls' = exitCalls + 1
    /\ wpc' = "exitGracefully"
    /\ UNCHANGED <<pretty, mainVars, parserVars, chanVars, first, recvRecord, sink, sinkState,
                   doneCount, mpc, exitStatus, stderr>>

\* writeString("["+breakLine, false); first := true
WriterWriteOpen ==
    /\ Running /\ wpc = "writeOpen"
    /\ sink' = Append(sink, TextFragment("[" \o breakLine(pretty)))
    /\ first' = TRUE
    /\ wpc' = "recv"
    /\ UNCHANGED <<pretty, mainVars, parserVars, chanVars, recvRecord, sinkState, doneCount, procVars>>

\* record, more := <-writeChannel on the closed channel: more is false
WriterRecvClosed ==
    /\ Running /\ wpc = "recv" /\ chanClosed
    /\ wpc' = "writeClose"
    /\ UNCHANGED <<pretty, mainVars, parserVars, chanVars, first, recvRecord, sink, sinkState,
                   doneCount, procVars>>

\* faulty variant: the separator is written with close = true
WriterWriteSep_Closes ==
    /\ Running /\ wpc = "writeSep"
    /\ sink' = Append(sink, TextFragment("," \o breakLine(pretty)))
    /\ sinkState' = "closed"
    /\ wpc' = "writeRec"
    /\ UNCHANGED <<pretty, mainVars, parserVars, chanVars, first, recvRecord, doneCount,
                   procVars>>

\* writeString(","+breakLine, false)
WriterWriteSep ==
    /\ Running /\ wpc = "writeSep"
    /\ sink' = Append(sink, TextFragment("," \o breakLine(pretty)))
    /\ wpc' = "writeRec"
    /\ UNCHANGED <<pretty, mainVars, parserVars, chanVars, first, recvRecord, sinkState, doneCount,
                   procVars>>

\* faulty variant: the writer renders the parser's record variable, not the one received
WriterWriteRecord_ParserRecord ==
    /\ Running /\ wpc = "writeRec"
    /\ sink' = Append(sink, jsonFunc(pretty, record))
    /\ wpc' = "recv"
    /\ UNCHANGED <<pretty, mainVars, parserVars, chanVars, first, recvRecord, sinkState, doneCount,
                   procVars>>

\* jsonData := jsonFunc(record); writeString(jsonData, false)
WriterWriteRecord ==
    /\ Running /\ wpc = "writeRec"
    /\ sink' = Append(sink, jsonFunc(pretty, recvRecord))
    /\ wpc' = "recv"
    /\ UNCHANGED <<pretty, mainVars, parserVars, chanVars, first, recvRecord, sinkState, doneCount,
                   procVars>>

\* faulty variant: the last write is made with close = false
WriterWriteClose_NoClose ==
    /\ Running /\ wpc = "writeClose"
    /\ sink' = Append(sink, TextFragment(breakLine(pretty) \o "]"))
    /\ wpc' = "printDone"
    /\ UNCHANGED <<pretty, mainVars, parserVars, chanVars, first, recvRecord, sinkState, doneCount,
                   procVars>>

\* writeString(breakLine+"]", true): the write, then f.Close()
WriterWriteClose ==
    /\ Running /\ wpc = "writeClose"
    /\ sink' = Append(sink, TextFragment(breakLine(pretty) \o "]"))
    /\ sinkState' = "closed"
    /\ wpc' = "printDone"
    /\ UNCHANGED <<pretty, mainVars, parserVars, chanVars, first, recvRecord, doneCount, procVars>>

\* f.WriteString fails in any of the four writeString calls: check(err)
WriterWriteFails ==
    /\ Running /\ wpc \in {"writeOpen", "writeSep", "writeRec", "writeClose"}
    /\ ioFault' = TRUE
    /\ exitCalls' = exitCalls + 1
    /\ wpc' = "exitGracefully"
    /\ UNCHANGED <<pretty, mainVars, parserVars, chanVars, first, recvRecord, sink, sinkState,
                   doneCount, mpc, exitStatus, stderr>>

\* fmt.Println("Done!")
WriterPrintDone ==
    /\ Running /\ wpc = "printDone"
    /\ doneCount' = doneCount + 1
    /\ wpc' = "sendDone"
    /\ UNCHANGED <<pretty, mainVars, parserVars, chanVars, first, recvRecord, sink, sinkState,
                   procVars>>

\* exitGracefully: fmt.Fprintf(os.Stderr, ...)
WriterReportError ==
    /\ Running /\ wpc = "exitGracefully"
    /\ stderr' = Append(stderr, "writer")
    /\ wpc' = "osExit"
    /\ UNCHANGED <<pretty, mainVars, parserVars, chanVars, first, recvRecord, sink, sinkState,
                   doneCount, mpc, exitStatus, exitCalls, ioFault>>

\* exitGracefully: os.Exit(1)
WriterOsExit ==
    /\ Running /\ wpc = "osExit"
    /\ exitStatus' = "failed"
    /\ UNCHANGED <<pretty, mainVars, parserVars, chanVars, writerVars, mpc, stderr, exitCalls, ioFault>>

(* -------------------------------- main --------------------------------- *)
\* opts, err := getOpts(); if err != nil { exitGracefully(err) }
MainGetOpts ==
    /\ Running /\ mpc = "getOpts"
    /\ LET r == getOpts(osArgs, pretty)
       IN /\ opts' = r.opts
          /\ optsErr' = r.err
          /\ mpc' = IF r.err = "nil" THEN "checkFile" ELSE "exitGracefully"
          /\ exitCalls' = IF r.err = "nil" THEN exitCalls ELSE exitCalls + 1
    /\ UNCHANGED <<pretty, osArgs, fileStat, valid, chanMade, parserVars, chanVars,
                   writerVars, exitStatus, stderr, ioFault>>

\* faulty variant: the error of checkIfValidFile is dropped
MainCheckFile_Ignored ==
    /\ Running /\ mpc = "checkFile"
    /\ \E st \in {"exists", "notExist"} :
         /\ fileStat' = st
         /\ valid' = checkIfValidFile(opts.filePath, st)
    /\ mpc' = "startParser"
    /\ UNCHANGED <<pretty, osArgs, opts, optsErr, chanMade, parserVars, chanVars,
                   writerVars, exitStatus, stderr, exitCalls, ioFault>>

\* if _, err := checkIfValidFile(opts.filePath); err != nil { exitGracefully(err) }
MainCheckFile ==
    /\ Running /\ mpc = "checkFile"
    /\ \E st \in {"exists", "notExist"} :
         LET r == checkIfValidFile(opts.filePath, st)
         IN /\ fileStat' = st
            /\ valid' = r
            /\ mpc' = IF r.err THEN "exitGracefully" ELSE "startParser"
            /\ exitCalls' = IF r.err THEN exitCalls + 1 ELSE exitCalls
    /\ UNCHANGED <<pretty, osArgs, opts, optsErr, chanMade, parserVars, chanVars,
                   writerVars, exitStatus, stderr, ioFault>>

\* writerChannel := make(...); done := make(...); go processCsvFile(opts, writerChannel)
MainStartParser ==
    /\ Running /\ mpc = "startParser"
    /\ chanMade' = TRUE
    /\ ppc' = "open"
    /\ mpc' = "startWriter"
    /\ UNCHANGED <<pretty, osArgs, fileStat, opts, optsErr, valid, inputState,
                   fieldsPerRecord, atEOF, rowsRead, headers, line, readErr, record, skipped,
                   built, chanVars, writerVars, exitStatus, stderr, exitCalls, ioFault>>

\* go writeJSONFile(opts.outputPath, writerChannel, done, opts.pretty)
MainStartWriter ==
    /\ Running /\ mpc = "startWriter"
    /\ wpc' = "create"
    /\ mpc' = "recvDone"
    /\ UNCHANGED <<pretty, mainVars, parserVars, chanVars, first, recvRecord, sink,
                   sinkState, doneCount, exitStatus, stderr, exitCalls, ioFault>>

\* exitGracefully: fmt.Fprintf(os.Stderr, ...)
MainReportError ==
    /\ Running /\ mpc = "exitGracefully"
    /\ stderr' = Append(stderr, "main")
    /\ mpc' = "osExit"
    /\ UNCHANGED <<pretty, mainVars, parserVars, chanVars, writerVars, exitStatus,
                   exitCalls, ioFault>>

\* exitGracefully: os.Exit(1)
MainOsExit ==
    /\ Running /\ mpc = "osExit"
    /\ exitStatus' = "failed"
    /\ UNCHANGED <<pretty, mainVars, parserVars, chanVars, writerVars, mpc, stderr,
                   exitCalls, ioFault>>

\* done <- true meets <-done: writeJSONFile breaks out of its loop and returns
DoneHandoff ==
    /\ Running /\ wpc = "sendDone" /\ mpc = "recvDone"
    /\ wpc' = "returned"
    /\ mpc' = "return"
    /\ UNCHANGED <<pretty, mainVars, parserVars, chanVars, first, recvRecord, sink, sinkState,
                   doneCount, exitStatus, stderr, exitCalls, ioFault>>

\* main returns: the process ends with status 0, every goroutine with it
MainReturn ==
    /\ Running /\ mpc = "return"
    /\ exitStatus' = "ok"
    /\ UNCHANGED <<pretty, mainVars, parserVars, chanVars, writerVars, mpc, stderr, exitCalls, ioFault>>

ParserNext ==
    \/ ParserOpen \/ ParserOpenFails \/ ParserReadHeader \/ ParserRead \/ ParserEOF
    \/ ParserReadFatal \/ ParserProcessLine \/ ParserReturn \/ ParserReportError
    \/ ParserOsExit

WriterNext ==
    \/ WriterCreate \/ WriterCreateFails \/ WriterWriteOpen \/ WriterRecvClosed
    \/ WriterWriteSep \/ WriterWriteRecord \/ WriterWriteClose \/ WriterWriteFails
    \/ WriterPrintDone \/ WriterReportError \/ WriterOsExit

MainNext ==
    \/ MainGetOpts \/ MainCheckFile \/ MainStartParser \/ MainStartWriter
    \/ MainReportError \/ MainOsExit \/ DoneHandoff \/ MainReturn

Next == ParserNext \/ Handoff \/ WriterNext \/ MainNext

Spec == Init /\ [][Next]_vars

\* goroutines run whenever they can: each stage, the handoff and main are
\* scheduled fairly
FairSpec ==
    /\ Spec
    /\ WF_vars(ParserNext)
    /\ WF_vars(Handoff)
    /\ WF_vars(WriterNext)
    /\ WF_vars(MainNext)

(* ------------------------- reading the output -------------------------- *)
IsObject(f) == f.kind = "object"
Objects(s) == SelectSeq(s, IsObject)
Keys(f) == [i \in 1..Len(f.pairs) |-> f.pairs[i].key]
\* the mapping a JSON parser reads back from one written object
ParseObject(f) ==
    [k \in Range(Keys(f)) |-> f.pairs[CHOOSE i \in 1..Len(f.pairs) : f.pairs[i].key = k].value]
WrittenRecords == [i \in 1..Len(Objects(sink)) |-> ParseObject(Objects(sink)[i])]

OpenBracket == TextFragment("[" \o breakLine(pretty))
CloseBracket == TextFragment(breakLine(pretty) \o "]")
FullDocument ==
    /\ Len(sink) >= 2
    /\ sink[1] = OpenBracket
    /\ Last(sink) = CloseBracket
    /\ \A i \in 2..(Len(sink) - 1) : sink[i] # OpenBracket /\ sink[i] # CloseBracket

(* -------------------------- reading the input -------------------------- *)
WellFormed(item) == ~item.bad /\ Len(item.fields) = Len(headers)
Mismatched(item) == ~item.bad /\ Len(item.fields) # Len(headers)
\* position of a name's last occurrence in the header
LastIndex(name) == CHOOSE i \in 1..Len(headers) :
    headers[i] = name /\ \A j \in (i + 1)..Len(headers) : headers[j] # name
FirstIndex(name) == CHOOSE i \in 1..Len(headers) :
    headers[i] = name /\ \A j \in 1..(i - 1) : headers[j] # name
\* the record a well-formed data line stands for
RowRecord(item) == [name \in Range(headers) |-> item.fields[LastIndex(name)]]
RowRecords == LET wf == SelectSeq(rowsRead, WellFormed)
              IN [i \in 1..Len(wf) |-> RowRecord(wf[i])]
NoDuplicateNames == Cardinality(Range(headers)) = Len(headers)

(* ------------------------------- claims -------------------------------- *)

\* C1: a data row whose field count differs from the header's is a soft
\* error: the parser does not end the run over it, one diagnostic is printed
\* per such row, and a completed run has written exactly the well-formed rows.
C1_MismatchedRowSkipped ==
    /\ (ppc \in {"exitGracefully", "osExit"} /\ rowsRead # <<>>)
          => ~Mismatched(Last(rowsRead))
    /\ exitStatus = "ok" =>
          /\ WrittenRecords = RowRecords
          /\ skipped = Cardinality({i \in 1..Len(rowsRead) : Mismatched(rowsRead[i])})

\* C2: when the input has a header and every data row has as many fields as
\* the header, and no file operation fails, a run that has ended has completed,
\* and the sink holds '[', one object per data row with exactly the header's
\* key set, and ']'; the header row is not among the elements.
C2_AllRowsWritten ==
    (/\ exitStatus # "running"
     /\ ~ioFault
     /\ headers # <<>>
     /\ \A i \in 1..Len(rowsRead) : WellFormed(rowsRead[i]))
    => /\ exitStatus = "ok"
       /\ FullDocument
       /\ Len(Objects(sink)) = Len(rowsRead)
       /\ \A i \in 1..Len(rowsRead) :
            /\ Range(Keys(Objects(sink)[i])) = Range(headers)
            /\ WrittenRecords[i] = RowRecord(rowsRead[i])

C2_Witness ==
    /\ exitStatus = "ok"
    /\ Len(rowsRead) >= 2
    /\ Len(headers) >= 2
    /\ Len(Objects(sink)) = Len(rowsRead)

\* C3: the records written to the sink are always a prefix of the records
\* sent, which are a prefix of the well-formed rows read, and at completion
\* the i-th output element is the i-th well-formed data row.
C3_OrderPreserved ==
    /\ IsPrefix(WrittenRecords, sent)
    /\ IsPrefix(sent, RowRecords)
    /\ exitStatus = "ok" => WrittenRecords = RowRecords

C3_Witness ==
    /\ exitStatus = "ok"
    /\ Len(WrittenRecords) >= 2
    /\ WrittenRecords[1] # WrittenRecords[2]

C5_ExactlyOneOutcome ==
    /\ ~(doneCount > 0 /\ exitCalls > 0)
    /\ doneCount <= 1
    /\ exitCalls <= 1
    /\ Len(stderr) <= 1

\* C6 as stated: in every written object the keys appear in the header's
\* column order.
C6_KeysInHeaderOrder ==
    \A n \in 1..Len(sink) : IsObject(sink[n]) =>
        \A i, j \in 1..Len(sink[n].pairs) :
            i < j => FirstIndex(sink[n].pairs[i].key) < FirstIndex(sink[n].pairs[j].key)

\* C6 amended: in every written object the keys are the header's distinct
\* names in ascending byte order, whatever the header's order, and the object's
\* text is determined by the record and the rendering mode alone.
C6_KeysInSortedOrder ==
    /\ \A n \in 1..Len(sink) : IsObject(sink[n]) =>
          /\ Range(Keys(sink[n])) = Range(headers)
          /\ \A i, j \in 1..Len(sink[n].pairs) :
                i < j => Rank(sink[n].pairs[i].key) < Rank(sink[n].pairs[j].key)
    /\ \A i \in 1..Len(Objects(sink)) :
          Objects(sink)[i].text = (IF pretty THEN "   " ELSE "")

C6_Witness ==
    /\ headers = <<"b", "a">>
    /\ Len(Objects(sink)) >= 1

\* C7 as stated: every record that reaches the writer has as many entries as
\* the header has columns.
C7_RecordLenEqualsHeaderLen ==
    \A i \in 1..Len(sent) : Cardinality(DOMAIN sent[i]) = Len(headers)

\* C7 amended: every record that reaches the writer has exactly one entry per
\* distinct header name (as many entries as columns when no name repeats), and
\* only rows with as many fields as the header are built into records.
C7_RecordOneEntryPerDistinctName ==
    /\ \A i \in 1..Len(sent) :
          /\ DOMAIN sent[i] = Range(headers)
          /\ NoDuplicateNames => Cardinality(DOMAIN sent[i]) = Len(headers)
    /\ ppc = "send" => DOMAIN record = Range(headers)
    /\ built <= Len(SelectSeq(rowsRead, WellFormed))

C7_Witness ==
    /\ Len(sent) >= 1
    /\ ~NoDuplicateNames

\* C8: the parser has built at most one record more than the writer has
\* received, it is then blocked in the send, and it reads no data row while a
\* record is unreceived.
C8_Backpressure ==
    /\ built - received \in {0, 1}
    /\ built > received => ppc = "send"
    /\ ppc \in {"readLine", "checkErr"} => built = received

C8_Witness ==
    /\ built = 2
    /\ received = 1
    /\ ppc = "send"

\* C9: the channel is closed at most once, by the parser when its read hit end
\* of file and it left the loop; no send is pending or attempted on the closed
\* channel; and a receive on the closed channel does not block but yields the
\* no-more-records indicator, which the writer gets only from a closed channel.
C9_ChannelDiscipline ==
    /\ closeCount <= 1
    /\ chanClosed <=> closeCount = 1
    /\ chanClosed => (readErr = "EOF" /\ atEOF /\ ppc \in {"deferClose", "returned"})
    /\ wpc \in {"writeClose", "printDone", "sendDone", "returned"} => chanClosed
    /\ (Running /\ chanClosed /\ wpc = "recv") => ENABLED WriterRecvClosed

C9_Witness ==
    /\ chanClosed
    /\ wpc = "writeClose"
    /\ Len(sent) >= 1

\* C10: once the writer is past its last write (and so whenever done has been
\* signalled or main has returned) the sink holds the full document and is
\* closed; main returns only after the writer has sent done.
C10_ClosedBeforeDone ==
    /\ (wpc \in {"printDone", "sendDone", "returned"} \/ mpc = "return" \/ exitStatus = "ok")
          => (FullDocument /\ sinkState = "closed")
    /\ mpc = "return" => (wpc = "returned" /\ doneCount = 1)
    /\ exitStatus = "ok" => mpc = "return"

C10_Witness ==
    /\ exitStatus = "ok"
    /\ sinkState = "closed"
    /\ Len(sink) > 2

(* --------------------- reading the output as text ---------------------- *)
Separator == TextFragment("," \o breakLine(pretty))
CountOf(f) == Cardinality({i \in 1..Len(sink) : sink[i] = f})

\* the text of a sink that holds no object
RECURSIVE ConcatText(_)
ConcatText(s) == IF s = <<>> THEN "" ELSE Head(s).text \o ConcatText(Tail(s))

\* a fragment without the white space of the indented mode
Strip(f) ==
    IF IsObject(f) THEN [kind |-> "object", text |-> "", pairs |-> f.pairs]
    ELSE IF f.text \in {"[", "[\n"} THEN TextFragment("[")
    ELSE IF f.text \in {",", ",\n"} THEN TextFragment(",")
    ELSE IF f.text \in {"]", "\n]"} THEN TextFragment("]")
    ELSE f
StripAll(s) == [i \in 1..Len(s) |-> Strip(s[i])]

\* the compact document of a sequence of records
RECURSIVE CompactBody(_)
CompactBody(recs) ==
    IF recs = <<>> THEN <<>>
    ELSE IF Len(recs) = 1 THEN <<jsonFunc(FALSE, recs[1])>>
    ELSE <<jsonFunc(FALSE, recs[1]), TextFragment(",")>> \o CompactBody(Tail(recs))
CompactDoc(recs) == <<TextFragment("[")>> \o CompactBody(recs) \o <<TextFragment("]")>>

\* C11: the first record written has no separator before it and every later
\* record exactly one; a separator stands only between a record and the next
\* record, never directly after '[' or before ']'; a completed run with n >= 1
\* records holds exactly n - 1 separators.
C11_SeparatorsBetweenRecords ==
    /\ \A i \in 1..Len(sink) : IsObject(sink[i]) =>
          \/ i = 2 /\ sink[1] = OpenBracket
          \/ i > 3 /\ sink[i - 1] = Separator /\ IsObject(sink[i - 2])
    /\ \A i \in 1..Len(sink) : sink[i] = Separator =>
          /\ i > 2 /\ IsObject(sink[i - 1])
          /\ i < Len(sink) => IsObject(sink[i + 1])
    /\ wpc = "writeSep" => (~first /\ Len(Objects(sink)) >= 1)
    /\ exitStatus = "ok" =>
          CountOf(Separator) =
             (IF Len(Objects(sink)) = 0 THEN 0 ELSE Len(Objects(sink)) - 1)

C11_Witness ==
    /\ exitStatus = "ok"
    /\ Len(Objects(sink)) = 2
    /\ CountOf(Separator) = 1

\* C12: whenever a run has ended, the input file and the output file, if they
\* were opened, have been closed.
C12_FilesReleasedAtExit ==
    exitStatus # "running" => (inputState # "open" /\ sinkState # "open")

\* C13: after a fatal read error in the parser (no header line, or a line the
\* tokenizer rejects) the channel is not closed, the closing bracket is not
\* written, completion is not reported, the run does not end in completion,
\* and when it has ended the input file is closed.
C13_FatalReadError ==
    (ppc \in {"exitGracefully", "osExit"} /\ readErr \in {"EOF", "ErrQuote"})
    => /\ ~chanClosed
       /\ ppc # "send"
       /\ CountOf(CloseBracket) = 0
       /\ doneCount = 0
       /\ exitStatus # "ok"
       /\ exitStatus = "failed" => inputState = "closed"

\* C14: a completed compact run on a header with no data rows has written
\* exactly '[' and ']', the two characters "[]".
C14_EmptyArrayCompact ==
    (exitStatus = "ok" /\ ~pretty /\ rowsRead = <<>>)
    => /\ sink = <<TextFragment("["), TextFragment("]")>>
       /\ ConcatText(sink) = "[]"

C14_Witness ==
    /\ exitStatus = "ok"
    /\ ~pretty
    /\ rowsRead = <<>>
    /\ Len(sink) = 2

\* C15: in either mode every written object is the rendering of the record
\* sent, both renderings of a record hold the same key/value pairs in the same
\* order and read back as the record, every other fragment differs between
\* the modes by the line break alone, and the completed document without its
\* white space is the compact document of the well-formed rows read.
C15_ModesEquivalent ==
    /\ \A k \in 1..Len(Objects(sink)) :
          /\ Objects(sink)[k] = jsonFunc(pretty, sent[k])
          /\ jsonFunc(TRUE, sent[k]).pairs = jsonFunc(FALSE, sent[k]).pairs
          /\ ParseObject(jsonFunc(TRUE, sent[k])) = sent[k]
          /\ ParseObject(jsonFunc(FALSE, sent[k])) = sent[k]
    /\ \A i \in 1..Len(sink) : ~IsObject(sink[i]) =>
          sink[i].text \in {"[" \o breakLine(pretty), "," \o breakLine(pretty),
                            breakLine(pretty) \o "]"}
    /\ exitStatus = "ok" => StripAll(sink) = CompactDoc(RowRecords)

C15_Witness ==
    /\ exitStatus = "ok"
    /\ pretty
    /\ Len(headers) = 2
    /\ NoDuplicateNames
    /\ Len(Objects(sink)) = 2

\* C16: every record built has one key per distinct header name, and its value
\* for a name is the field at the last position at which the name occurs in
\* the header.
C16_LastDuplicateWins ==
    /\ \A i \in 1..Len(sent) :
          LET row == SelectSeq(rowsRead, WellFormed)[i]
          IN /\ DOMAIN sent[i] = Range(headers)
             /\ \A name \in Range(headers) : sent[i][name] = row.fields[LastIndex(name)]
    /\ ppc = "send" =>
          /\ DOMAIN record = Range(headers)
          /\ \A name \in Range(headers) : record[name] = line[LastIndex(name)]

C16_Witness ==
    /\ headers = <<"a", "a">>
    /\ Len(sent) >= 1
    /\ sent[1]["a"] = Cell("x", 2)

\* C17: checkIfValidFile returns (true, no error) for an existing file with
\* the .csv extension and (false, error) when the extension is not .csv or the
\* file does not exist.
C17_CheckIfValidFile ==
    fileStat # "unknown" =>
        /\ (Ext(opts.filePath) = ".csv" /\ fileStat = "exists")
              => valid = [ok |-> TRUE, err |-> FALSE]
        /\ (Ext(opts.filePath) # ".csv" \/ fileStat = "notExist")
              => valid = [ok |-> FALSE, err |-> TRUE]

C17_Witness ==
    /\ fileStat = "exists"
    /\ opts.filePath = "test.csv"
    /\ valid.ok

\* C18: getOpts returns an error and empty options exactly when no file
\* argument is given or the separator is neither comma nor semicolon, and
\* otherwise returns the file path, the separator and the pretty flag given.
C18_GetOptsErrors ==
    mpc # "getOpts" =>
        /\ optsErr # "nil" <=>
              (osArgs.file = "" \/ osArgs.separator \notin {"comma", "semicolon"})
        /\ optsErr # "nil" => opts = NoOpts
        /\ optsErr = "nil" =>
              /\ opts.filePath = osArgs.file
              /\ opts.separator = osArgs.separator
              /\ opts.pretty = pretty

\* C19: the channels are made and the goroutines started only after getOpts
\* and checkIfValidFile have both succeeded; when either fails main goes to
\* exitGracefully with no channel made, no goroutine started and no output
\* file created or written.
C19_ValidationPrecedesPipeline ==
    /\ (chanMade \/ ppc # "notStarted" \/ wpc # "notStarted") =>
          /\ optsErr = "nil"
          /\ valid = [ok |-> TRUE, err |-> FALSE]
          /\ mpc \notin {"getOpts", "checkFile", "exitGracefully", "osExit"}
    /\ (optsErr # "nil" \/ valid.err) =>
          /\ ~chanMade
          /\ ppc = "notStarted" /\ wpc = "notStarted"
          /\ sinkState = "none" /\ sink = <<>>
          /\ mpc \in {"exitGracefully", "osExit"}
          /\ exitStatus # "ok"

C19_Witness ==
    /\ exitStatus = "failed"
    /\ optsErr = "nil"
    /\ valid.err
    /\ ~chanMade

\* C20: the sink changes only in a write of the writer on the open file; the
\* opening bracket is its first fragment, written once and before any record
\* is received; the closing bracket is written at most once; and once the file
\* is closed the writer is past its last write.
C20_SinkState ==
    /\ sink # <<>> =>
          /\ sinkState # "none"
          /\ sink[1] = OpenBracket
          /\ \A i \in 2..Len(sink) : sink[i] # OpenBracket
    /\ received > 0 => sink # <<>>
    /\ CountOf(CloseBracket) <= 1
    /\ sinkState = "closed" =>
          /\ wpc \in {"printDone", "sendDone", "returned"}
          /\ Last(sink) = CloseBracket

C20_SinkWrittenByWriterWhileOpen ==
    /\ []C20_SinkState
    /\ [][sink' # sink =>
            /\ sinkState = "open"
            /\ wpc \in {"writeOpen", "writeSep", "writeRec", "writeClose"}
            /\ wpc' # wpc
            /\ ppc' = ppc /\ mpc' = mpc
            /\ Len(sink') = Len(sink) + 1]_vars

C20_Witness ==
    /\ exitStatus = "ok"
    /\ sinkState = "closed"
    /\ CountOf(CloseBracket) = 1
    /\ received >= 1

====
